---- MODULE Spec2Model ----
(***************************************************************************)
(* slack-pr-lambda: the webhook handler PullRequestHandler                 *)
(* (src/app/api/handlers/pull_request.go) as a state machine.              *)
(*                                                                         *)
(* Each inbound request runs the handler in its own goroutine.  The steps  *)
(* of one request are the handler's calls to the outside world (the Slack  *)
(* client and the DynamoDB table); the code between two such calls is      *)
(* local to the request and is part of the step that precedes it.          *)
(* Requests share only the table (store) and the process itself, which     *)
(* log.Fatal ends for every request at once.                               *)
(***************************************************************************)
EXTENDS Integers, Sequences, FiniteSets, TLC

(* ------------------------------ bounds -------------------------------- *)

\* requests delivered in one behaviour
MaxDeliveries == 3
\* distinct message timestamps the Slack API can hand out
NumHandles == 2
\* requested reviewers carried by one 'opened' event
MaxReviewers == 1

\* The goroutines that can be inside the handler at the same time.  They are
\* interchangeable: a request is given the first idle one.
Slots == {1, 2}

\* pull request identities the events refer to
PullRequestIDs == {42, 99}

(* ------------------------- net/http status codes ---------------------- *)

StatusOK == 200
StatusBadRequest == 400
StatusInternalServerError == 500

(* ----------------------------- envelopes ------------------------------ *)

\* What the request body is, as far as the handler can tell the cases apart:
\*   json       "readerror"  io.ReadAll fails
\*              "invalid"    not JSON
\*              "array"      JSON, but not an object
\*              "null"       the JSON literal null
\*              "object"     a JSON object
\*   actionKind "absent" | "number" | "null" | "string" : the "action" member
\*   actionVal  the string, when actionKind = "string"
\*   schema     "ok" | "mismatch" : whether the members the typed event
\*              declares have the JSON types it declares
\*   id         pull_request.id (0 when the member is missing)
\*   number     the top-level "number" member (the pull request's number)
\*   reviewers  len(pull_request.requested_reviewers)
Envelope(j, ak, av, s, i, n) ==
    [json |-> j, actionKind |-> ak, actionVal |-> av, schema |-> s, id |-> i,
     number |-> IF i = 0 THEN 0 ELSE i % 10, reviewers |-> n]

NoEnvelope == Envelope("none", "absent", "", "ok", 0, 0)

KnownActions == {"opened", "review_requested", "created", "closed"}
ContinuingActions == {"review_requested", "created", "closed"}

Envelopes ==
    {Envelope(j, "absent", "", "ok", 0, 0) :
        j \in {"readerror", "invalid", "array", "null", "object"}}
    \cup {Envelope("object", ak, "", "ok", 0, 0) : ak \in {"number", "null"}}
    \cup {Envelope("object", "string", av, "ok", 0, 0) : av \in {"", "labeled"}}
    \cup {Envelope("object", "string", "opened", "ok", i, n) :
            i \in PullRequestIDs, n \in 0..MaxReviewers}
    \cup {Envelope("object", "string", av, "ok", i, 0) :
            av \in ContinuingActions, i \in PullRequestIDs}
    \cup {Envelope("object", "string", av, "mismatch", 0, 0) : av \in KnownActions}

(* --------------------------- pure functions --------------------------- *)

Digit(d) ==
    CASE d = 0 -> "0" [] d = 1 -> "1" [] d = 2 -> "2" [] d = 3 -> "3"
      [] d = 4 -> "4" [] d = 5 -> "5" [] d = 6 -> "6" [] d = 7 -> "7"
      [] d = 8 -> "8" [] d = 9 -> "9"

RECURSIVE Digits(_)
Digits(n) == IF n < 10 THEN Digit(n) ELSE Digits(n \div 10) \o Digit(n % 10)

\* fmt.Sprintf("%d", id)
Sprintf_d(id) == IF id < 0 THEN "-" \o Digits(-id) ELSE Digits(id)

\* the timestamps chat.postMessage can return ("T1", "T2", ...)
Handles == {"T" \o Digits(n) : n \in 1..NumHandles}
NoHandle == ""

\* json.Unmarshal(body, &result) with result a map[string]json.RawMessage:
\* TRUE when it returns an error
UnmarshalEnvelopeErr(e) == e.json \in {"invalid", "array"}

\* json.Unmarshal(result["action"], &action) with action a string
UnmarshalAction(e) ==
    IF e.json = "object" /\ e.actionKind = "string"
        THEN [err |-> FALSE, action |-> e.actionVal]
    ELSE IF e.json = "object" /\ e.actionKind = "null"
        THEN [err |-> FALSE, action |-> ""]
    ELSE [err |-> TRUE, action |-> ""]

\* json.Unmarshal(body, &input) into the typed event of a known action:
\* TRUE when it returns an error
UnmarshalEventErr(e) == e.schema = "mismatch"

(* ------------------------------- state -------------------------------- *)

VARIABLES
    alive,      \* the process runs (log.Fatal has not ended it)
    store,      \* the DynamoDB table: a set of TablePullRequestData items
    issued,     \* the timestamps SlackSendMessage has returned so far
    threadOf,   \* per pull request ID: the timestamp that the top-level post
                \* of the last 'opened' request for it whose write succeeded
                \* returned (NoHandle when there was none)
    delivered,  \* requests delivered so far
    pc,         \* per goroutine: the call it is about to make
    env,        \* per goroutine: the request body
    action,     \* per goroutine: the handler's local `action`
    timeStamp,  \* per goroutine: the handler's local `timeStamp`
    log         \* per goroutine: what the request has done so far, in order

vars ==
    <<alive, store, issued, threadOf, delivered, pc, env, action, timeStamp, log>>

\* One entry of a request's log.
\*   op "post"    SlackSendMessage          handle: the returned timestamp
\*      "thread"  SlackSendMessageThread*   handle: the thread timestamp passed
\*      "get"     GetSlackTimeStamp*        key, handle: the result;
\*                                          bound: the timestamps the table
\*                                          held under the key
\*      "put"     InsertItem                key, handle: the item;
\*                                          bound: the timestamps the table
\*                                          holds under the key after the call
\*      "fail"    a stage failed            kind
\*      "respond" status and body written   status, body
\*   ok:    the call returned no error
\*   wrote: the table is not the same after the step as before it
Ev(op, ok, key, handle, bound, kind, status, body) ==
    [op |-> op, ok |-> ok, key |-> key, handle |-> handle, bound |-> bound,
     kind |-> kind, status |-> status, body |-> body, wrote |-> FALSE]

PostEv(ok, h) == Ev("post", ok, "", h, {}, "", 0, "")
ThreadEv(ok, h) == Ev("thread", ok, "", h, {}, "", 0, "")
GetEv(ok, k, h, b) == Ev("get", ok, k, h, b, "", 0, "")
PutEv(ok, k, h, b) == Ev("put", ok, k, h, b, "", 0, "")
FailEv(kind) == Ev("fail", FALSE, "", "", {}, kind, 0, "")
RespondEv(status, body) == Ev("respond", TRUE, "", "", {}, "", status, body)

\* the timestamps the table holds under key k
Bound(tbl, k) == {i.SlackTimeStamp : i \in {j \in tbl : j.ID = k}}

(* ------------------------- the external packages ---------------------- *)

\* db.InsertItem: PutItem, an unconditional upsert on the primary key ID
InsertItemResult(tbl, item) == {i \in tbl : i.ID # item.ID} \cup {item}

\* the key the lookups of a continuing event use: the decimal string of the
\* ID of the pull request the event refers to
LookupKey(e) == Sprintf_d(e.id)

\* db.GetSlackTimeStampReviewRequest / Issue / Close: GetItem by LookupKey;
\* an error when there is no such item
GetSlackTimeStampResult(tbl, e) ==
    LET hit == {i \in tbl : i.ID = LookupKey(e)}
    IN  IF hit = {} THEN [err |-> TRUE, timeStamp |-> NoHandle]
        ELSE [err |-> FALSE, timeStamp |-> (CHOOSE i \in hit : TRUE).SlackTimeStamp]

(* ------------------------- the handler's pieces ----------------------- *)

\* http.Error(w, text, code) after a failure of the given kind
HttpError(kind, code, text) == <<FailEv(kind), RespondEv(code, text)>>

BadRequest(kind) == HttpError(kind, StatusBadRequest, "Bad Request")

InternalServerError(kind) ==
    HttpError(kind, StatusInternalServerError, "Internal Server Error")

\* lines 207-218: json.Marshal(Response{Message: "Webhook done."}) cannot fail;
\* header, status and body are written
WebhookDone == <<RespondEv(StatusOK, "{\"message\":\"Webhook done.\"}")>>

\* Dispatch, had the last branch been an else instead of a test for "closed"
Dispatch_ElseClosed(a) ==
    IF a = "opened" THEN "SlackSendMessage"
    ELSE IF a = "review_requested" THEN "GetSlackTimeStampReviewRequest"
    ELSE IF a = "created" THEN "GetSlackTimeStampIssue"
    ELSE "GetSlackTimeStampClose"

\* lines 59, 112, 144, 176: the branch an action takes, named by its first
\* call; "return" when no branch matches
Dispatch(a) ==
    IF a = "opened" THEN "SlackSendMessage"
    ELSE IF a = "review_requested" THEN "GetSlackTimeStampReviewRequest"
    ELSE IF a = "created" THEN "GetSlackTimeStampIssue"
    ELSE IF a = "closed" THEN "GetSlackTimeStampClose"
    ELSE "return"

\* AfterSendMessage, had the reviewers follow-up been left out
AfterSendMessage_NoFollowUp(e, ok) == IF ~ok THEN "return" ELSE "InsertItem"

\* lines 72-79: where an 'opened' request goes after the top-level post
AfterSendMessage(e, ok) ==
    IF ~ok THEN "return"
    ELSE IF e.reviewers > 0 THEN "SlackSendMessageThreadReviewers"
    ELSE "InsertItem"

\* AfterOpenedReviewers, had the error branch not returned
AfterOpenedReviewers_NoReturn(ok) == "InsertItem"

\* lines 86-93: where an 'opened' request goes after the reviewers follow-up
AfterOpenedReviewers(ok) == IF ok THEN "InsertItem" ELSE "return"

\* NewItem, had the item been keyed by the pull request's number
NewItem_ByNumber(e, ts) ==
    [ID |-> Sprintf_d(e.number), PullRequestId |-> e.number, SlackTimeStamp |-> ts]

\* NewItem, had the timestamp been rebuilt from the event and not retained
NewItem_Reconstructed(e, ts) ==
    [ID |-> Sprintf_d(e.id), PullRequestId |-> e.number,
     SlackTimeStamp |-> Sprintf_d(e.id)]

\* lines 96-100: the item an 'opened' request writes
NewItem(e, ts) ==
    [ID |-> Sprintf_d(e.id), PullRequestId |-> e.number, SlackTimeStamp |-> ts]

\* AfterInsertItem, had the error of the write been dropped
AfterInsertItem_ErrDropped(ok) == WebhookDone

\* lines 103-109, 207-218: what an 'opened' request answers after the write
AfterInsertItem(ok) ==
    IF ok THEN WebhookDone ELSE InternalServerError("PersistenceFailure")

\* AfterGetSlackTimeStamp, had the error branch not returned
AfterGetSlackTimeStamp_NoReturn(got, next) ==
    [pc |-> next, timeStamp |-> got.timeStamp]

\* AfterGetSlackTimeStamp, had the result been assigned to a shadowed variable
AfterGetSlackTimeStamp_Shadowed(got, next) ==
    IF got.err THEN [pc |-> "return", timeStamp |-> NoHandle]
    ELSE [pc |-> next, timeStamp |-> NoHandle]

\* lines 125-132, 157-164, 189-196: what a continuing request does with the
\* result of its lookup: the next call and the value of its local timeStamp
AfterGetSlackTimeStamp(got, next) ==
    IF got.err THEN [pc |-> "return", timeStamp |-> NoHandle]
    ELSE [pc |-> next, timeStamp |-> got.timeStamp]

\* lines 135-141, 167-173, 198-204, 207-218: what a continuing request
\* answers after its threaded reply
AfterSendThread(ok) ==
    IF ok THEN WebhookDone ELSE InternalServerError("DispatchFailure")

\* goroutine r moves to p with local timeStamp t, having done evs
Goto(r, p, t, evs) ==
    /\ pc' = [pc EXCEPT ![r] = p]
    /\ timeStamp' = [timeStamp EXCEPT ![r] = t]
    /\ log' = [log EXCEPT ![r] =
                  @ \o [i \in 1..Len(evs) |->
                           [evs[i] EXCEPT !.wrote = (store' # store)]]]

\* log.Fatal / zapLog.Fatal: os.Exit(1), for every goroutine
Fatal(r, kind) ==
    /\ alive' = FALSE
    /\ Goto(r, "exited", timeStamp[r], <<FailEv(kind)>>)

\* threadOf once the request with log l has written the binding of pull
\* request u: the timestamp its top-level post returned is now the one of u
Posted(t, u, l) ==
    LET posts == SelectSeq(l, LAMBDA x : x.op = "post" /\ x.ok)
    IN  [v \in DOMAIN t \cup {u} |->
            IF v # u THEN t[v]
            ELSE IF posts = <<>> THEN NoHandle
            ELSE posts[Len(posts)].handle]

Init ==
    /\ alive = TRUE
    /\ store = {}
    /\ issued = {}
    /\ threadOf = [u \in PullRequestIDs |-> NoHandle]
    /\ delivered = 0
    /\ pc = [r \in Slots |-> "idle"]
    /\ env = [r \in Slots |-> NoEnvelope]
    /\ action = [r \in Slots |-> ""]
    /\ timeStamp = [r \in Slots |-> NoHandle]
    /\ log = [r \in Slots |-> <<>>]

(* ------------------------------ the steps ----------------------------- *)

\* Lines 19-69, 112-122, 144-154, 176-186 and, for an action no branch
\* matches, 207-218: a request with body e arrives at goroutine r, which runs
\* up to its first call to Slack or to the table.
PullRequestHandler(r, e) ==
    /\ alive
    /\ pc[r] = "idle"
    /\ \A q \in Slots : q < r => pc[q] # "idle"
    /\ delivered < MaxDeliveries
    /\ delivered' = delivered + 1
    /\ env' = [env EXCEPT ![r] = e]
    /\ UNCHANGED <<store, issued, threadOf>>
    /\ IF e.json = "readerror"
         THEN /\ Fatal(r, "ReadBody")
              /\ UNCHANGED action
       ELSE IF UnmarshalEnvelopeErr(e)
         THEN /\ Goto(r, "return", NoHandle, BadRequest("MalformedEnvelope"))
              /\ UNCHANGED <<alive, action>>
       ELSE IF UnmarshalAction(e).err
         THEN /\ Fatal(r, "MalformedEnvelope")
              /\ UNCHANGED action
       ELSE LET a == UnmarshalAction(e).action
                p == Dispatch(a)
            IN  /\ action' = [action EXCEPT ![r] = a]
                /\ UNCHANGED alive
                /\ IF p = "return"
                     THEN Goto(r, "return", NoHandle, WebhookDone)
                   ELSE IF UnmarshalEventErr(e)
                     THEN Goto(r, "return", NoHandle, BadRequest("SchemaMismatch"))
                   ELSE Goto(r, p, NoHandle, <<>>)

\* Lines 71-78: the top-level post.  Slack answers with a timestamp or an error.
SlackSendMessage(r) ==
    /\ alive
    /\ pc[r] = "SlackSendMessage"
    /\ UNCHANGED <<alive, store, threadOf, delivered, env, action>>
    /\ \/ \E h \in Handles :
            /\ issued' = issued \cup {h}
            /\ Goto(r, AfterSendMessage(env[r], TRUE), h, <<PostEv(TRUE, h)>>)
       \/ /\ UNCHANGED issued
          /\ Goto(r, AfterSendMessage(env[r], FALSE), NoHandle,
                  <<PostEv(FALSE, NoHandle)>> \o InternalServerError("DispatchFailure"))

\* Lines 79-93: the reviewers follow-up of an 'opened' event, under timeStamp.
OpenedThreadReviewers(r) ==
    /\ alive
    /\ pc[r] = "SlackSendMessageThreadReviewers"
    /\ action[r] = "opened"
    /\ UNCHANGED <<alive, store, issued, threadOf, delivered, env, action>>
    /\ \/ Goto(r, AfterOpenedReviewers(TRUE), timeStamp[r],
               <<ThreadEv(TRUE, timeStamp[r])>>)
       \/ Goto(r, AfterOpenedReviewers(FALSE), timeStamp[r],
               <<ThreadEv(FALSE, timeStamp[r])>>
               \o InternalServerError("DispatchFailure"))

\* InsertItem, had the handler kept the binding a key already has
InsertItem_KeepFirst(r) ==
    /\ alive
    /\ pc[r] = "InsertItem"
    /\ UNCHANGED <<alive, issued, delivered, env, action>>
    /\ LET item == NewItem(env[r], timeStamp[r])
       IN  /\ store' = IF Bound(store, item.ID) # {} THEN store
                       ELSE InsertItemResult(store, item)
           /\ threadOf' = Posted(threadOf, env[r].id, log[r])
           /\ Goto(r, "return", timeStamp[r],
                   <<PutEv(TRUE, item.ID, item.SlackTimeStamp,
                           Bound(store', item.ID))>>
                   \o AfterInsertItem(TRUE))

\* Lines 95-109, then 207-218: the binding is written; the write can fail.
InsertItem(r) ==
    /\ alive
    /\ pc[r] = "InsertItem"
    /\ UNCHANGED <<alive, issued, delivered, env, action>>
    /\ LET item == NewItem(env[r], timeStamp[r])
       IN  \/ /\ store' = InsertItemResult(store, item)
              /\ threadOf' = Posted(threadOf, env[r].id, log[r])
              /\ Goto(r, "return", timeStamp[r],
                      <<PutEv(TRUE, item.ID, item.SlackTimeStamp,
                              Bound(store', item.ID))>>
                      \o AfterInsertItem(TRUE))
           \/ /\ UNCHANGED <<store, threadOf>>
              /\ Goto(r, "return", timeStamp[r],
                      <<PutEv(FALSE, item.ID, item.SlackTimeStamp,
                              Bound(store, item.ID))>>
                      \o AfterInsertItem(FALSE))

\* GetSlackTimeStamp, had the lookup taken the item out of the table
GetSlackTimeStamp_Consuming(r, next) ==
    /\ alive
    /\ UNCHANGED <<alive, issued, threadOf, delivered, env, action>>
    /\ store' = {i \in store : i.ID # LookupKey(env[r])}
    /\ LET got == GetSlackTimeStampResult(store, env[r])
           to == AfterGetSlackTimeStamp(got, next)
           key == LookupKey(env[r])
       IN  Goto(r, to.pc, to.timeStamp,
                <<GetEv(~got.err, key, got.timeStamp, Bound(store, key))>>
                \o IF got.err THEN InternalServerError("ThreadNotFound") ELSE <<>>)

\* The lookup of a continuing event: lines 124-132, 156-164, 188-196.
GetSlackTimeStamp(r, next) ==
    /\ alive
    /\ UNCHANGED <<alive, store, issued, threadOf, delivered, env, action>>
    /\ LET got == GetSlackTimeStampResult(store, env[r])
           to == AfterGetSlackTimeStamp(got, next)
           key == LookupKey(env[r])
       IN  Goto(r, to.pc, to.timeStamp,
                <<GetEv(~got.err, key, got.timeStamp, Bound(store, key))>>
                \o IF got.err THEN InternalServerError("ThreadNotFound") ELSE <<>>)

\* The threaded reply of a continuing event, then 207-218:
\* lines 133-141, 166-173, 197-204.
SlackSendMessageThread(r) ==
    /\ alive
    /\ UNCHANGED <<alive, store, issued, threadOf, delivered, env, action>>
    /\ \E ok \in BOOLEAN :
          Goto(r, "return", timeStamp[r],
               <<ThreadEv(ok, timeStamp[r])>> \o AfterSendThread(ok))

\* lines 124-132
GetSlackTimeStampReviewRequest(r) ==
    /\ pc[r] = "GetSlackTimeStampReviewRequest"
    /\ GetSlackTimeStamp(r, "SlackSendMessageThreadReviewers")

\* lines 133-141
ReviewRequestedThreadReviewers(r) ==
    /\ pc[r] = "SlackSendMessageThreadReviewers"
    /\ action[r] # "opened"
    /\ SlackSendMessageThread(r)

\* lines 156-164
GetSlackTimeStampIssue(r) ==
    /\ pc[r] = "GetSlackTimeStampIssue"
    /\ GetSlackTimeStamp(r, "SlackSendMessageThreadComment")

\* lines 166-173
SlackSendMessageThreadComment(r) ==
    /\ pc[r] = "SlackSendMessageThreadComment"
    /\ SlackSendMessageThread(r)

\* lines 188-196
GetSlackTimeStampClose(r) ==
    /\ pc[r] = "GetSlackTimeStampClose"
    /\ GetSlackTimeStamp(r, "SlackSendMessageThreadClosed")

\* lines 197-204
SlackSendMessageThreadClosed(r) ==
    /\ pc[r] = "SlackSendMessageThreadClosed"
    /\ SlackSendMessageThread(r)

\* Lines 22-33: the handler returns and its deferred functions run: the
\* logger is synced and the body closed; an error of either ends the process.
\* Otherwise the goroutine is done and can serve the next request.
Return(r) ==
    /\ alive
    /\ pc[r] = "return"
    /\ UNCHANGED <<store, issued, threadOf, delivered>>
    /\ \/ /\ pc' = [pc EXCEPT ![r] = "idle"]
          /\ env' = [env EXCEPT ![r] = NoEnvelope]
          /\ action' = [action EXCEPT ![r] = ""]
          /\ timeStamp' = [timeStamp EXCEPT ![r] = NoHandle]
          /\ log' = [log EXCEPT ![r] = <<>>]
          /\ UNCHANGED alive
       \/ /\ alive' = FALSE
          /\ pc' = [pc EXCEPT ![r] = "exited"]
          /\ UNCHANGED <<env, action, timeStamp, log>>

Next ==
    \/ \E r \in Slots, e \in Envelopes : PullRequestHandler(r, e)
    \/ \E r \in Slots : SlackSendMessage(r)
    \/ \E r \in Slots : OpenedThreadReviewers(r)
    \/ \E r \in Slots : InsertItem(r)
    \/ \E r \in Slots : GetSlackTimeStampReviewRequest(r)
    \/ \E r \in Slots : ReviewRequestedThreadReviewers(r)
    \/ \E r \in Slots : GetSlackTimeStampIssue(r)
    \/ \E r \in Slots : SlackSendMessageThreadComment(r)
    \/ \E r \in Slots : GetSlackTimeStampClose(r)
    \/ \E r \in Slots : SlackSendMessageThreadClosed(r)
    \/ \E r \in Slots : Return(r)

Spec == Init /\ [][Next]_vars

\* The deliveries in which each pull request gets a single 'opened' event:
\* an 'opened' request for a pull request arrives only while every request
\* delivered so far is still in its goroutine and none of them is an 'opened'
\* request for that pull request.
SingleOpenedHandler(r, e) ==
    /\ (e.actionVal = "opened" /\ e.id # 0) =>
          /\ delivered = Cardinality({q \in Slots : pc[q] # "idle"})
          /\ \A q \in Slots :
                ~(env[q].actionVal = "opened" /\ env[q].id = e.id)
    /\ PullRequestHandler(r, e)

NextSingleOpened ==
    \/ \E r \in Slots, e \in Envelopes : SingleOpenedHandler(r, e)
    \/ \E r \in Slots : SlackSendMessage(r)
    \/ \E r \in Slots : OpenedThreadReviewers(r)
    \/ \E r \in Slots : InsertItem(r)
    \/ \E r \in Slots : GetSlackTimeStampReviewRequest(r)
    \/ \E r \in Slots : ReviewRequestedThreadReviewers(r)
    \/ \E r \in Slots : GetSlackTimeStampIssue(r)
    \/ \E r \in Slots : SlackSendMessageThreadComment(r)
    \/ \E r \in Slots : GetSlackTimeStampClose(r)
    \/ \E r \in Slots : SlackSendMessageThreadClosed(r)
    \/ \E r \in Slots : Return(r)

SpecSingleOpened == Init /\ [][NextSingleOpened]_vars

(* ------------------------- reading a request's log -------------------- *)

Busy == {r \in Slots : pc[r] # "idle"}

\* the entries of request r's log with the given op, in order
Ops(r, o) == SelectSeq(log[r], LAMBDA x : x.op = o)

\* the statuses request r has written, in order
Statuses(r) == [i \in 1..Len(Ops(r, "respond")) |-> Ops(r, "respond")[i].status]

\* the kinds of the failures of request r
FailKinds(r) == {Ops(r, "fail")[i].kind : i \in 1..Len(Ops(r, "fail"))}

\* the timestamps request r passed to threaded sends
ThreadHandles(r) == {Ops(r, "thread")[i].handle : i \in 1..Len(Ops(r, "thread"))}

CallOps == {"post", "thread", "get", "put"}

\* the calls request r has made to Slack and to the table
Calls(r) == SelectSeq(log[r], LAMBDA x : x.op \in CallOps)

\* the handler of request r has run to its end (or ended the process)
Finished(r) == pc[r] \in {"return", "exited"}

Range(f) == {f[i] : i \in DOMAIN f}

\* no step of request r changed the table
NoWrite(r) == \A i \in 1..Len(log[r]) : ~log[r][i].wrote

(* ------------------------------- claims ------------------------------- *)

\* C1: an 'opened' request that has answered 200 made exactly one store
\* write, it succeeded, and right after it the table held, under the decimal
\* string of the pull request's ID, exactly the timestamp that the request's
\* own top-level post returned.
C1_OpenedBinding ==
    \A r \in Slots :
        (action[r] = "opened" /\ StatusOK \in Range(Statuses(r))) =>
            LET puts == Ops(r, "put")
                posts == Ops(r, "post")
            IN  /\ Len(puts) = 1
                /\ Len(posts) = 1
                /\ posts[1].ok
                /\ puts[1].ok
                /\ posts[1].handle \in Handles
                /\ puts[1].key = Sprintf_d(env[r].id)
                /\ puts[1].handle = posts[1].handle
                /\ puts[1].bound = {posts[1].handle}

C1_Witness ==
    \E r \in Slots :
        /\ action[r] = "opened"
        /\ Statuses(r) = <<StatusOK>>
        /\ Len(Ops(r, "put")) = 1
        /\ Bound(store, Sprintf_d(env[r].id)) = {Ops(r, "post")[1].handle}

\* C2: a continuing request whose key had a binding when it looked it up
\* passes exactly that binding's timestamp to its threaded send (one send,
\* once the handler has run to its end) and never writes to the table.
C2_ContinuingReply ==
    \A r \in Slots :
        (/\ action[r] \in ContinuingActions
         /\ Len(Ops(r, "get")) > 0
         /\ Ops(r, "get")[1].bound # {}) =>
            LET g == Ops(r, "get")[1]
            IN  /\ g.key = Sprintf_d(env[r].id)
                /\ \E h \in Handles :
                      /\ g.bound = {h}
                      /\ ThreadHandles(r) \subseteq {h}
                      /\ Finished(r) => Len(Ops(r, "thread")) = 1
                      /\ ~Finished(r) => timeStamp[r] = h
                /\ Ops(r, "put") = <<>>
                /\ NoWrite(r)

C2_Witness ==
    \E r \in Slots :
        /\ action[r] \in ContinuingActions
        /\ Len(Ops(r, "get")) = 1
        /\ Ops(r, "get")[1].bound # {}
        /\ Len(Ops(r, "thread")) = 1
        /\ Ops(r, "thread")[1].ok
        /\ Statuses(r) = <<StatusOK>>

\* C3: a continuing request whose key had no binding when it looked it up
\* answers 500 with ThreadNotFound, sends no message and writes no binding.
C3_ThreadNotFound ==
    \A r \in Slots :
        (/\ action[r] \in ContinuingActions
         /\ Len(Ops(r, "get")) > 0
         /\ Ops(r, "get")[1].bound = {}) =>
            /\ Statuses(r) = <<StatusInternalServerError>>
            /\ FailKinds(r) = {"ThreadNotFound"}
            /\ Len(Calls(r)) = 1
            /\ Ops(r, "post") = <<>>
            /\ Ops(r, "thread") = <<>>
            /\ Ops(r, "put") = <<>>
            /\ NoWrite(r)

C3_Witness ==
    \E r \in Slots :
        /\ action[r] \in ContinuingActions
        /\ Len(Ops(r, "get")) = 1
        /\ Ops(r, "get")[1].bound = {}
        /\ Statuses(r) = <<StatusInternalServerError>>

\* the body of request r is an object whose "action" is a string that names
\* none of the four known actions
UnknownAction(r) ==
    /\ r \in Busy
    /\ env[r].json = "object"
    /\ env[r].actionKind = "string"
    /\ env[r].actionVal \notin KnownActions

\* C4: a request whose action is a string other than the four known ones
\* answers 200 and makes no call to the table or to Slack.
C4_UnknownActionNoOp ==
    \A r \in Slots :
        UnknownAction(r) =>
            /\ Statuses(r) = <<StatusOK>>
            /\ Calls(r) = <<>>
            /\ FailKinds(r) = {}
            /\ NoWrite(r)
            /\ pc[r] \in {"return", "exited"}

C4_Witness ==
    \E r \in Slots :
        /\ UnknownAction(r)
        /\ env[r].actionVal = "labeled"
        /\ Statuses(r) = <<StatusOK>>

\* the body of request r is JSON, and its "action" is missing or no string
NoStringAction(r) ==
    /\ r \in Busy
    /\ \/ env[r].json \in {"array", "null"}
       \/ env[r].json = "object" /\ env[r].actionKind \in {"absent", "number", "null"}

\* C5: a request whose body is JSON but whose action is absent or is not a
\* string is answered with 400, and makes no call to the table or to Slack.
C5_MalformedEnvelope400 ==
    \A r \in Slots :
        NoStringAction(r) =>
            /\ Statuses(r) = <<StatusBadRequest>>
            /\ Calls(r) = <<>>

\* the keys under which the table holds an item
Keys(tbl) == {i.ID : i \in tbl}

\* the table holds at most one item per key
OneBindingPerKey == \A i, j \in store : i.ID = j.ID => i = j

\* C6 as stated: once a key is bound, the timestamp stored under it never
\* changes.
C6_WriteOnce ==
    [][\A k \in Keys(store) : Bound(store', k) = Bound(store, k)]_vars

\* C6, amended: the table holds at most one binding per key, and the
\* timestamp stored under a key changes (or first appears) only in the
\* successful store write of an 'opened' request for that pull request, which
\* sets it to the timestamp that request's own top-level post returned.
C6_OverwriteOnlyByOpened ==
    /\ []OneBindingPerKey
    /\ [][\A k \in Keys(store) \cup Keys(store') :
            Bound(store', k) # Bound(store, k) =>
                \E r \in Slots :
                    /\ action[r] = "opened"
                    /\ pc[r] = "InsertItem"
                    /\ pc'[r] = "return"
                    /\ k = Sprintf_d(env[r].id)
                    /\ Len(Ops(r, "post")) = 1
                    /\ Bound(store', k) = {Ops(r, "post")[1].handle}]_vars

\* two 'opened' requests for one pull request have both written, with
\* different timestamps
C6_Witness ==
    \E r, q \in Slots :
        /\ r # q
        /\ action[r] = "opened" /\ action[q] = "opened"
        /\ env[r].id = env[q].id
        /\ Statuses(r) = <<StatusOK>> /\ Statuses(q) = <<StatusOK>>
        /\ Ops(r, "put")[1].handle # Ops(q, "put")[1].handle
        /\ Cardinality(Bound(store, Sprintf_d(env[r].id))) = 1

DecodeFailures == {"MalformedEnvelope", "SchemaMismatch"}
ServerFailures == {"ThreadNotFound", "DispatchFailure", "PersistenceFailure"}

\* C7: every request whose body was read and whose handler has come to its
\* end has written exactly one status: 200 with the Webhook done body exactly
\* when nothing failed, 400 exactly when decoding failed, 500 exactly when
\* the lookup, a send or the write failed.
C7_OneResponseByOutcome ==
    \A r \in Slots :
        (Finished(r) /\ env[r].json # "readerror") =>
            LET rs == Ops(r, "respond")
            IN  /\ Len(rs) = 1
                /\ rs[1].status = StatusOK <=> FailKinds(r) = {}
                /\ rs[1].status = StatusOK => <<rs[1]>> = WebhookDone
                /\ rs[1].status = StatusBadRequest <=>
                       FailKinds(r) \cap DecodeFailures # {}
                /\ rs[1].status = StatusInternalServerError <=>
                       FailKinds(r) \cap ServerFailures # {}

\* the reviewers follow-up of 'opened' request r failed after its post succeeded
FollowUpFailed(r) ==
    /\ action[r] = "opened"
    /\ env[r].reviewers > 0
    /\ Len(Ops(r, "post")) = 1
    /\ Ops(r, "post")[1].ok
    /\ \E i \in 1..Len(Ops(r, "thread")) : ~Ops(r, "thread")[i].ok

\* C8: an 'opened' request with reviewers whose post succeeded and whose
\* follow-up failed answers 500 and writes no binding.
C8_FollowUpFailureNoBinding ==
    \A r \in Slots :
        FollowUpFailed(r) =>
            /\ Statuses(r) = <<StatusInternalServerError>>
            /\ Ops(r, "put") = <<>>
            /\ NoWrite(r)
            /\ Finished(r)

C8_Witness ==
    \E r \in Slots : FollowUpFailed(r) /\ pc[r] = "return"

\* the store write of 'opened' request r failed
WriteFailed(r) ==
    /\ action[r] = "opened"
    /\ Len(Ops(r, "put")) > 0
    /\ ~Ops(r, "put")[1].ok

\* C9: an 'opened' request whose sends succeeded and whose store write failed
\* answers 500 with PersistenceFailure, leaves the table as it was, and makes
\* no call after the failed write.
C9_WriteFailureReported ==
    \A r \in Slots :
        WriteFailed(r) =>
            /\ Statuses(r) = <<StatusInternalServerError>>
            /\ FailKinds(r) = {"PersistenceFailure"}
            /\ NoWrite(r)
            /\ Len(Ops(r, "put")) = 1
            /\ Calls(r)[Len(Calls(r))].op = "put"
            /\ \A i \in 1..Len(Calls(r)) - 1 :
                   Calls(r)[i].op \in {"post", "thread"} /\ Calls(r)[i].ok
            /\ Finished(r)

C9_Witness ==
    \E r \in Slots :
        /\ WriteFailed(r)
        /\ Len(Ops(r, "thread")) = 1
        /\ pc[r] = "return"

\* C10: after a failure a request makes no further call, fails no second
\* time and never writes 200; no call is made twice; a failed request is at
\* the end of its handler.
C10_FailedAbsorbing ==
    \A r \in Slots :
        /\ \A i, j \in 1..Len(log[r]) :
              (i < j /\ log[r][i].op = "fail") =>
                  /\ log[r][j].op \notin CallOps \cup {"fail"}
                  /\ ~(log[r][j].op = "respond" /\ log[r][j].status = StatusOK)
        /\ \A o \in CallOps : Len(Ops(r, o)) <= 1
        /\ FailKinds(r) # {} => Finished(r) /\ StatusOK \notin Range(Statuses(r))

\* a request failed after it had already sent a message
C10_Witness ==
    \E r \in Slots :
        /\ FailKinds(r) # {}
        /\ Len(Calls(r)) >= 2
        /\ Calls(r)[1].ok
        /\ pc[r] = "return"

\* the timestamp the top-level post of request r returned
PostHandle(r) == Ops(r, "post")[1].handle

\* request r is an 'opened' request for pull request u that has written
WroteFor(r, u) ==
    /\ action[r] = "opened"
    /\ env[r].id = u
    /\ Len(Ops(r, "post")) = 1
    /\ Len(Ops(r, "put")) = 1
    /\ Ops(r, "put")[1].ok

\* C11: when two 'opened' requests for one pull request have run side by side
\* and both have written, the table holds exactly one item under the key, and
\* its timestamp is the one obtained by the request that wrote last.
C11_LastWriterWins ==
    \A u \in PullRequestIDs : \A r, q \in Slots :
        (r # q /\ WroteFor(r, u) /\ WroteFor(q, u)) =>
            /\ Cardinality({i \in store : i.ID = Sprintf_d(u)}) = 1
            /\ Bound(store, Sprintf_d(u)) = {threadOf[u]}
            /\ threadOf[u] \in {PostHandle(r), PostHandle(q)}
            /\ Ops(r, "put")[1].bound = {PostHandle(r)}
            /\ Ops(q, "put")[1].bound = {PostHandle(q)}

C11_Witness ==
    \E u \in PullRequestIDs : \E r, q \in Slots :
        /\ r # q /\ WroteFor(r, u) /\ WroteFor(q, u)
        /\ pc[r] = "return" /\ pc[q] = "return"
        /\ PostHandle(r) # PostHandle(q)
        /\ Bound(store, Sprintf_d(u)) = {PostHandle(q)}
        /\ Ops(q, "put")[1].wrote

GetPcs ==
    {"GetSlackTimeStampReviewRequest", "GetSlackTimeStampIssue",
     "GetSlackTimeStampClose"}

\* request r makes its lookup in this step
GetStep(r) == pc[r] \in GetPcs /\ pc'[r] # pc[r]

\* the statuses written in log l
StatusesOf(l) ==
    LET rs == SelectSeq(l, LAMBDA x : x.op = "respond")
    IN  [i \in 1..Len(rs) |-> rs[i].status]

\* every threaded send of a continuing request went under the result of its
\* lookup
RepliesUnderLookup ==
    \A r \in Slots :
        (action[r] \in ContinuingActions /\ Ops(r, "thread") # <<>>) =>
            /\ Len(Ops(r, "get")) = 1
            /\ Ops(r, "get")[1].ok
            /\ ThreadHandles(r) = {Ops(r, "get")[1].handle}

\* C12 as stated: a continuing request for pull request u that makes its
\* lookup after an 'opened' request for u has written, with timestamp T, goes
\* on to reply under T.
C12_RepliesUnderOpenedHandle ==
    [][\A r, q \in Slots :
          (GetStep(r) /\ q # r /\ WroteFor(q, env[r].id)) =>
              /\ pc'[r] # "return"
              /\ timeStamp'[r] = PostHandle(q)]_vars

\* C12, amended: a continuing request for u looks up the key an 'opened'
\* request for u writes; it goes on to reply under the timestamp of the last
\* 'opened' request for u whose write succeeded before the lookup, and
\* answers 500 without a reply when there was none.
C12_RepliesUnderLastOpened ==
    /\ []RepliesUnderLookup
    /\ [][\A r \in Slots :
            GetStep(r) =>
                LET u == env[r].id
                    g == log'[r][Len(log'[r])]
                IN  IF u \in DOMAIN threadOf /\ threadOf[u] # NoHandle
                      THEN /\ g.op = "get"
                           /\ g.key = NewItem(env[r], threadOf[u]).ID
                           /\ pc'[r] \notin {"return", "exited", "idle"}
                           /\ timeStamp'[r] = threadOf[u]
                    ELSE /\ pc'[r] = "return"
                         /\ StatusesOf(log'[r]) = <<StatusInternalServerError>>
                         /\ SelectSeq(log'[r], LAMBDA x : x.op = "thread") = <<>>]_vars

\* an 'opened' request for u has written and a continuing request for u has
\* replied under its timestamp
C12_Witness ==
    \E r, q \in Slots :
        /\ r # q
        /\ WroteFor(q, env[r].id)
        /\ action[r] \in ContinuingActions
        /\ Statuses(r) = <<StatusOK>>
        /\ ThreadHandles(r) = {PostHandle(q)}
        /\ threadOf[env[r].id] = PostHandle(q)

\* requests r and q are continuing requests with the same body that have both
\* made their lookup
SameEventLookedUp(r, q) ==
    /\ r # q
    /\ action[r] \in ContinuingActions
    /\ env[r] = env[q]
    /\ Len(Ops(r, "get")) = 1
    /\ Len(Ops(q, "get")) = 1

\* C13: a continuing request never changes the table, and two continuing
\* requests with the same body whose lookups found the same binding under the
\* key resolve alike: both fail, or both get the same timestamp and reply
\* under it.
C13_ResolutionIdempotent ==
    /\ \A r \in Slots :
          action[r] \in ContinuingActions => NoWrite(r) /\ Ops(r, "put") = <<>>
    /\ \A r, q \in Slots :
          (SameEventLookedUp(r, q) /\ Ops(r, "get")[1].bound = Ops(q, "get")[1].bound) =>
              /\ Ops(r, "get")[1].ok = Ops(q, "get")[1].ok
              /\ Ops(r, "get")[1].handle = Ops(q, "get")[1].handle
              /\ Ops(r, "get")[1].key = Ops(q, "get")[1].key
              /\ (Ops(r, "thread") # <<>> /\ Ops(q, "thread") # <<>>) =>
                     ThreadHandles(r) = ThreadHandles(q)

C13_Witness ==
    \E r, q \in Slots :
        /\ SameEventLookedUp(r, q)
        /\ pc[r] = "return" /\ pc[q] = "return"
        /\ Ops(r, "get")[1].ok /\ Ops(q, "get")[1].ok
        /\ Len(Ops(r, "thread")) = 1 /\ Len(Ops(q, "thread")) = 1
        /\ ThreadHandles(r) = ThreadHandles(q)
        /\ ThreadHandles(r) = Bound(store, LookupKey(env[r]))

\* 'opened' request r is at its store write with every message sent
FullyDispatched(r) ==
    /\ action[r] = "opened"
    /\ pc[r] = "InsertItem"
    /\ FailKinds(r) = {}
    /\ Len(Ops(r, "post")) = 1
    /\ Ops(r, "post")[1].ok
    /\ Len(Ops(r, "thread")) = (IF env[r].reviewers > 0 THEN 1 ELSE 0)
    /\ \A i \in 1..Len(Ops(r, "thread")) : Ops(r, "thread")[i].ok

\* C14: no step takes a key out of the table, and a step that changes the
\* table is the store write of a fully dispatched 'opened' request, which
\* changes nothing but the item under that request's key.
C14_OnlyOpenedWrites ==
    [][/\ Keys(store) \subseteq Keys(store')
       /\ store' # store =>
             \E r \in Slots :
                 /\ FullyDispatched(r)
                 /\ pc'[r] = "return"
                 /\ StatusesOf(log'[r]) = <<StatusOK>>
                 /\ \A i \in store : i.ID # Sprintf_d(env[r].id) => i \in store'
                 /\ \A j \in store' : j.ID # Sprintf_d(env[r].id) => j \in store]_vars

\* a table with a binding in it, next to a continuing request that replied
\* and an 'opened' request that failed, neither of which wrote
C14_Witness ==
    \E r, q \in Slots :
        /\ store # {}
        /\ action[r] \in ContinuingActions
        /\ Statuses(r) = <<StatusOK>>
        /\ NoWrite(r)
        /\ action[q] = "opened"
        /\ FailKinds(q) # {}
        /\ NoWrite(q)

\* C15: whatever the body that was read, the request is answered: the
\* process does not end inside a handler that has written no response (which
\* would leave that request, and the requests in the other goroutines,
\* without an answer).
C15_InputCannotStopProcess ==
    \A r \in Slots :
        (pc[r] = "exited" /\ env[r].json # "readerror") => Len(Statuses(r)) = 1

\* C16: the calls of an 'opened' request are, in this order, the top-level
\* post, then (exactly when the event lists a reviewer) one threaded send
\* under the timestamp the post returned, then the store write; each is made
\* only after the ones before it succeeded.
C16_OpenedCallOrder ==
    \A r \in Slots :
        action[r] = "opened" =>
            LET c == Calls(r)
                n == Len(c)
                last == IF env[r].reviewers > 0 THEN 3 ELSE 2
            IN  /\ n <= last
                /\ \A i \in 1..n :
                      /\ c[i].op = "post" <=> i = 1
                      /\ c[i].op = "thread" <=> (i = 2 /\ env[r].reviewers > 0)
                      /\ c[i].op = "put" <=> i = last
                      /\ i > 1 => c[i].handle = c[1].handle /\ c[1].handle \in Handles
                      /\ \A j \in 1..(i - 1) : c[j].ok
                /\ pc[r] = "InsertItem" => n = last - 1
                /\ StatusOK \in Range(Statuses(r)) => n = last

C16_Witness ==
    \E r, q \in Slots :
        /\ action[r] = "opened" /\ env[r].reviewers > 0
        /\ Len(Calls(r)) = 3
        /\ Statuses(r) = <<StatusOK>>
        /\ action[q] = "opened" /\ env[q].reviewers = 0
        /\ Len(Calls(q)) = 2
        /\ Statuses(q) = <<StatusOK>>

\* C17: every timestamp stored in the table, and every timestamp a threaded
\* send was made under, is one that an earlier SlackSendMessage returned; none
\* is empty, and within a request the timestamp is the one its own post or
\* its own lookup produced.
C17_HandleProvenance ==
    /\ \A i \in store : i.SlackTimeStamp \in issued
    /\ NoHandle \notin issued
    /\ \A r \in Slots :
          /\ ThreadHandles(r) \subseteq issued
          /\ \A i \in 1..Len(Calls(r)) :
                Calls(r)[i].op \in {"thread", "put"} =>
                    /\ i > 1
                    /\ Calls(r)[i - 1].ok
                    /\ Calls(r)[i].handle = Calls(r)[i - 1].handle
                    /\ Calls(r)[i].handle \in issued

C17_Witness ==
    /\ store # {}
    /\ \E r, q \in Slots :
          /\ action[r] = "opened" /\ ThreadHandles(r) # {}
          /\ action[q] \in ContinuingActions /\ ThreadHandles(q) # {}

\* C18: when each pull request gets a single 'opened' request, a continuing
\* request for pull request u, under every interleaving with it, never posts
\* and never writes, and its lookup either found nothing, after which it sent
\* nothing and answered 500, or found the timestamp that the 'opened' request
\* for u obtained and wrote, and every threaded send it makes goes under that
\* timestamp.
C18_ConcurrentWithSingleOpened ==
    /\ \A u \in PullRequestIDs :
          /\ Bound(store, Sprintf_d(u)) =
                IF threadOf[u] = NoHandle THEN {} ELSE {threadOf[u]}
          /\ \A q \in Slots : WroteFor(q, u) => PostHandle(q) = threadOf[u]
    /\ \A r \in Slots :
          action[r] \in ContinuingActions =>
              LET g == Ops(r, "get")
              IN  /\ NoWrite(r)
                  /\ Ops(r, "put") = <<>>
                  /\ Ops(r, "post") = <<>>
                  /\ Len(g) <= 1
                  /\ Len(g) = 0 => ThreadHandles(r) = {}
                  /\ (Len(g) = 1 /\ ~g[1].ok) =>
                        /\ g[1].bound = {}
                        /\ ThreadHandles(r) = {}
                        /\ Statuses(r) = <<StatusInternalServerError>>
                  /\ (Len(g) = 1 /\ g[1].ok) =>
                        /\ threadOf[env[r].id] \in Handles
                        /\ g[1].bound = {threadOf[env[r].id]}
                        /\ g[1].handle = threadOf[env[r].id]
                        /\ ThreadHandles(r) \subseteq {threadOf[env[r].id]}
                        /\ StatusOK \in Range(Statuses(r)) =>
                              ThreadHandles(r) = {threadOf[env[r].id]}

\* a continuing request has replied under the timestamp of the 'opened'
\* request that is still in the other goroutine, while a third request's
\* lookup could come before the write
C18_Witness ==
    \E r, q \in Slots :
        /\ WroteFor(q, env[r].id)
        /\ action[r] \in ContinuingActions
        /\ ThreadHandles(r) = {PostHandle(q)}
        /\ Statuses(r) = <<StatusOK>>

\* requests r and q refer to different pull requests
DifferentPullRequests(r, q) ==
    /\ env[r].id \in PullRequestIDs
    /\ env[q].id \in PullRequestIDs
    /\ env[r].id # env[q].id

\* The part of C19 about the table and the threads: a request writes only
\* under the key of its own pull request, the table holds under each key what
\* the last 'opened' request for that pull request wrote, and a request sends
\* threaded messages only under the timestamp of its own post or the one its
\* own key was bound to at its lookup.
BindingIsolation ==
    /\ \A u \in PullRequestIDs :
          Bound(store, Sprintf_d(u)) =
              IF threadOf[u] = NoHandle THEN {} ELSE {threadOf[u]}
    /\ \A r \in Slots :
          /\ \A i \in 1..Len(log[r]) :
                /\ log[r][i].wrote => Len(Ops(r, "put")) = 1
                /\ log[r][i].op \in {"put", "get"} =>
                      log[r][i].key = Sprintf_d(env[r].id)
          /\ action[r] = "opened" /\ ThreadHandles(r) # {} =>
                ThreadHandles(r) = {PostHandle(r)}
          /\ action[r] \in ContinuingActions /\ ThreadHandles(r) # {} =>
                Ops(r, "get")[1].bound = ThreadHandles(r)

\* C19: a request referring to pull request A never changes the binding of
\* another pull request B and never sends under B's timestamp, and its
\* outcome is what it would be had the requests for B not run: in particular
\* no request for B keeps it from running to its response.
C19_NoInterference ==
    /\ BindingIsolation
    /\ \A r, q \in Slots :
          (DifferentPullRequests(r, q) /\ pc[q] = "exited") => Finished(r)

====
